---- MODULE Spec2Model ----
(***************************************************************************)
(* Model of pymotion's joint-centre estimator, lib/joints.py: the class    *)
(* Center, its method compute and the static compute_distance_residuals.   *)
(*                                                                         *)
(* Four specifications share the module:                                   *)
(*   Spec      one Center object and calls of compute on it: sample        *)
(*             masking, the solver call and the return;                    *)
(*   SpecCalls the same on shorter trials, with the first call of the      *)
(*             object recorded, to compare later calls with it;            *)
(*   SpecK     the 3x3 matrices prox_K / dist_K against the cross products *)
(*             of compute_distance_residuals;                              *)
(*   SpecA     the assembly of A and b of method SAC.                      *)
(***************************************************************************)
EXTENDS Integers, Sequences, FiniteSets

VARIABLES cfg, cfg0, pc, trial, mask, thresh, evals, solver, residual, fitM,
          result, first, ncalls, kin, kout, ain, aout

vars == <<cfg, cfg0, pc, trial, mask, thresh, evals, solver, residual, fitM,
          result, first, ncalls, kin, kout, ain, aout>>

computeVars == <<cfg, cfg0, pc, trial, mask, thresh, evals, solver, residual,
                 fitM, result, first, ncalls>>

(***************************************************************************)
(* Bounds of the model.                                                    *)
(***************************************************************************)
MaxN == 3          \* longest trial (samples) of Spec
MaxNCalls == 1     \* longest trial of SpecCalls
MaxCalls == 3      \* calls of compute on one Center in SpecCalls
WMax == 1          \* components of w and wd range over -WMax..WMax
RMax == 1          \* components of the offset r range over -RMax..RMax
MaxNA == 3         \* longest trial of SpecA

(***************************************************************************)
(* IEEE-754 doubles near the hundredths.  A number x is encoded as the     *)
(* integer  h * UnitScale + e  and stands for the real                     *)
(*     h/100 + e / (100 * 2^57),                                           *)
(* h the nearest hundredth and e the distance to it in units of            *)
(* 1/(100*2^57).  The encoding keeps order, sign and differences as long   *)
(* as |e| < UnitScale/2.  A real is a double of the binade [2^-k, 2^-k+1)  *)
(* iff h * 2^57 + e is a multiple of 100 * 2^(5-k), k = 1..5.              *)
(***************************************************************************)
UnitScale == 2 * 50000
Pow57Mod == 3072                      \* 2^57 mod 3200

Hund(x) == (x + (UnitScale \div 2)) \div UnitScale
Err(x) == x - Hund(x) * UnitScale
Dec(h) == h * UnitScale               \* the real h/100 (not a double)

\* spacing of the doubles around x, in units of 1/(100*2^57)
Grid(x) ==
    IF x >= Dec(50) THEN 1600
    ELSE IF x >= Dec(25) THEN 800
    ELSE IF Hund(x) >= 13 THEN 400
    ELSE IF Hund(x) >= 7 THEN 200
    ELSE 100

\* round-to-nearest, ties-to-even, of the real encoded by x
RoundDouble(x) ==
    LET g == Grid(x)
        rem == (Hund(x) * Pow57Mod + Err(x)) % g
        down == x - rem
        up == down + g
        downEven == ((Hund(down) * Pow57Mod + Err(down)) % (2 * g)) = 0
    IN  IF rem = 0 THEN x
        ELSE IF 2 * rem < g THEN down
        ELSE IF 2 * rem > g THEN up
        ELSE IF downEven THEN down ELSE up

\* the literals of the code, as the doubles Python reads them
T080 == 80 * UnitScale + 640          \* 0.8
F005 == 5 * UnitScale + 40            \* 0.05
F009 == 9 * UnitScale - 48            \* 0.09

\* thresh -= 0.05
FSub(x, y) == RoundDouble(x - y)

\* numpy.abs
NAbs(x) == IF x < 0 THEN 0 - x ELSE x

(***************************************************************************)
(* Inputs of compute.  A trial carries, per sample, the dynamic            *)
(* accelerations prox_an = norm(prox_a) - g and dist_an = norm(dist_a) - g *)
(* (doubles, signed), and what the numerical library will answer on its    *)
(* data under the Center's options: whether the fit succeeds and the error *)
(* value it reports.                                                       *)
(***************************************************************************)
V005 == 5 * UnitScale + 40            \* 0.05
V012 == 12 * UnitScale - 64           \* 0.12
V050 == 50 * UnitScale                \* 0.5
AnVals == {V005, V012, 0 - V050}
AnValsCalls == {V005, 0 - V050}
ErrVals == {2, 5}
ErrValsCalls == {2}

TrialsOfLen(n, vals, errs) ==
    [pan : [1..n -> vals], dan : [1..n -> vals],
     solves : BOOLEAN, err : errs]
Trials == UNION {TrialsOfLen(n, AnVals, ErrVals) : n \in 1..MaxN}
TrialsCalls ==
    UNION {TrialsOfLen(n, AnValsCalls, ErrValsCalls) : n \in 1..MaxNCalls}

NoTrial == [pan |-> <<>>, dan |-> <<>>, solves |-> FALSE, err |-> 0]
NSamples(t) == Len(t.pan)

(***************************************************************************)
(* Center.__init__                                                         *)
(***************************************************************************)
GDefault == 981
Methods == {"SAC", "SSFC"}
OptKwargs == {"default"}
Configs ==
    [g : {GDefault}, method : Methods, mask_input : BOOLEAN,
     min_samples : 1..(MaxN + 1), opt_kwargs : OptKwargs]

(***************************************************************************)
(* Masks                                                                   *)
(***************************************************************************)
RECURSIVE MaskSum(_)
MaskSum(m) ==
    IF m = <<>> THEN 0
    ELSE (IF Head(m) THEN 1 ELSE 0) + MaskSum(Tail(m))

Zeros(n) == [i \in 1..n |-> FALSE]

FullMaskButLast(n) == [i \in 1..n |-> i < n]
FullMask(n) == [i \in 1..n |-> TRUE]

\* logical_and(nabs(prox_an) > thresh, nabs(dist_an) > thresh)
ThreshMaskOr(t, th) ==
    [i \in 1..NSamples(t) |-> NAbs(t.pan[i]) > th \/ NAbs(t.dan[i]) > th]
ThreshMask(t, th) ==
    [i \in 1..NSamples(t) |-> NAbs(t.pan[i]) > th /\ NAbs(t.dan[i]) > th]

ThreshStale == IF pc = "idle" THEN T080 ELSE thresh
ThreshInit == T080

BelowFloorLate(th) == th < F009 - F005
BelowFloor(th) == th < F009

LoopGoesOn(m, c) == MaskSum(m) < c.min_samples

(***************************************************************************)
(* The solvers, as far as compute looks at their answers.                  *)
(*   lstsq(A, b): the residual array holds one value iff A (3M x 6) has    *)
(*   more rows than columns and full column rank, and is empty otherwise;  *)
(*   least_squares: returns a result object in every case; whether it      *)
(*   converged is in its status field.                                     *)
(***************************************************************************)
LstsqHasResidual(t, m) == 3 * MaskSum(m) > 6 /\ t.solves
LeastSquaresConverged(t, m) == t.solves

NoResult == [kind |-> "none", num |-> 0, den |-> 0]
Raised(k) == [kind |-> k, num |-> 0, den |-> 0]

\* residual / mask.sum(), kept as the pair numerator, denominator
ReturnedOverN(res, m) == [kind |-> "returned", num |-> res, den |-> Len(m)]
Returned(res, m) == [kind |-> "returned", num |-> res, den |-> MaskSum(m)]

NoFirst == [trial |-> NoTrial, mask |-> <<>>, result |-> NoResult]

(***************************************************************************)
(* State after construction of the Center                                  *)
(***************************************************************************)
NoKin == <<>>
NoAin == <<>>

\* the defaults of __init__, line 15
DefaultConfig ==
    [g |-> GDefault, method |-> "SAC", mask_input |-> TRUE,
     min_samples |-> 1000, opt_kwargs |-> "default"]

InitCompute(configs) ==
    /\ cfg \in configs
    /\ cfg0 = cfg
    /\ pc = "idle"
    /\ trial = NoTrial
    /\ mask = <<>>
    /\ thresh = 0
    /\ evals = 0
    /\ solver = "none"
    /\ residual = 0
    /\ fitM = 0
    /\ result = NoResult
    /\ first = NoFirst
    /\ ncalls = 0

Init ==
    /\ InitCompute(Configs)
    /\ kin = NoKin /\ kout = <<>>
    /\ ain = NoAin /\ aout = <<>>

(***************************************************************************)
(* compute, lines 75-81 / 124-132 and 89-91 / 140-142: entry, and the      *)
(* mask before the loop.                                                   *)
(***************************************************************************)
Enter(t) ==
    /\ trial' = t
    /\ evals' = 0
    /\ solver' = "none"
    /\ residual' = 0
    /\ fitM' = 0
    /\ result' = NoResult
    /\ IF cfg.mask_input
       THEN /\ mask' = Zeros(NSamples(t))
            /\ thresh' = ThreshInit
            /\ pc' = "loop"
       ELSE /\ mask' = FullMask(NSamples(t))
            /\ thresh' = thresh
            /\ pc' = "solve"
    /\ UNCHANGED <<cfg, cfg0, kin, kout, ain, aout>>

Call ==
    /\ pc = "idle"
    /\ \E t \in Trials : Enter(t)
    /\ UNCHANGED <<first, ncalls>>

\* the same call, counted, on the trials of SpecCalls
CallCounted ==
    /\ pc \in {"idle", "done"}
    /\ ncalls < MaxCalls
    /\ \E t \in TrialsCalls : Enter(t)
    /\ ncalls' = ncalls + 1
    /\ UNCHANGED first

\* what the first call of the object did, recorded when it ends
FirstAfter(m, r) ==
    IF ncalls = 1 THEN [trial |-> trial, mask |-> m, result |-> r] ELSE first

(***************************************************************************)
(* One pass of the while loop, lines 82-88 / 133-139                       *)
(***************************************************************************)
MaskIter ==
    /\ pc = "loop"
    /\ LoopGoesOn(mask, cfg)
    /\ mask' = ThreshMask(trial, thresh)
    /\ thresh' = FSub(thresh, F005)
    /\ evals' = evals + 1
    /\ IF BelowFloor(thresh')
       THEN /\ pc' = "done"
            /\ result' = Raised("ValueError")
            /\ first' = FirstAfter(mask', result')
       ELSE /\ pc' = "loop"
            /\ UNCHANGED <<result, first>>
    /\ UNCHANGED <<cfg, cfg0, trial, solver, residual, fitM, ncalls,
                   kin, kout, ain, aout>>

\* the loop condition is false: on to the fit
MaskExit ==
    /\ pc = "loop"
    /\ ~LoopGoesOn(mask, cfg)
    /\ pc' = "solve"
    /\ UNCHANGED <<cfg, cfg0, trial, mask, thresh, evals, solver, residual,
                   fitM, result, first, ncalls, kin, kout, ain, aout>>

(***************************************************************************)
(* Lines 93-122 (SAC) and 144-149 (SSFC): the fit on the masked samples    *)
(***************************************************************************)
Solve ==
    /\ pc = "solve"
    /\ fitM' = MaskSum(mask)
    /\ IF cfg.method = "SAC"
       THEN IF LstsqHasResidual(trial, mask)
            THEN /\ solver' = "ok"
                 /\ residual' = trial.err
                 /\ pc' = "return"
                 /\ UNCHANGED <<result, first>>
            ELSE \* residual[0] on the empty array
                 /\ solver' = "fail"
                 /\ residual' = residual
                 /\ pc' = "done"
                 /\ result' = Raised("IndexError")
                 /\ first' = FirstAfter(mask, result')
       ELSE /\ solver' = IF LeastSquaresConverged(trial, mask)
                         THEN "ok" ELSE "fail"
            /\ residual' = trial.err
            /\ pc' = "return"
            /\ UNCHANGED <<result, first>>
    /\ UNCHANGED <<cfg, cfg0, trial, mask, thresh, evals, ncalls,
                   kin, kout, ain, aout>>

(***************************************************************************)
(* Line 151                                                                *)
(***************************************************************************)
Return ==
    /\ pc = "return"
    /\ pc' = "done"
    /\ result' = Returned(residual, mask)
    /\ first' = FirstAfter(mask, result')
    /\ UNCHANGED <<cfg, cfg0, trial, mask, thresh, evals, solver, residual,
                   fitM, ncalls, kin, kout, ain, aout>>

\* the caller has the outcome; the locals of the call are gone
Finish ==
    /\ pc = "done"
    /\ pc' = "idle"
    /\ trial' = NoTrial
    /\ mask' = <<>>
    /\ thresh' = 0
    /\ evals' = 0
    /\ solver' = "none"
    /\ residual' = 0
    /\ fitM' = 0
    /\ result' = NoResult
    /\ UNCHANGED <<cfg, cfg0, first, ncalls, kin, kout, ain, aout>>

Next == Call \/ MaskIter \/ MaskExit \/ Solve \/ Return \/ Finish

Spec == Init /\ [][Next]_vars

NextCalls == CallCounted \/ MaskIter \/ MaskExit \/ Solve \/ Return

SpecCalls == Init /\ [][NextCalls]_vars

(***************************************************************************)
(* Vectors and matrices: sequences of length 3 and sequences of rows       *)
(***************************************************************************)
RECURSIVE SumTo(_, _)
SumTo(f, n) == IF n = 0 THEN 0 ELSE f[n] + SumTo(f, n - 1)

Dot(a, b) == SumTo([k \in 1..Len(a) |-> a[k] * b[k]], Len(a))
VSub(a, b) == [k \in 1..Len(a) |-> a[k] - b[k]]
MatVec(K, r) == [i \in 1..Len(K) |-> Dot(K[i], r)]
Column(B, j) == [k \in 1..Len(B) |-> B[k][j]]
MatMul(A, B) ==
    [i \in 1..Len(A) |-> [j \in 1..Len(B[1]) |-> Dot(A[i], Column(B, j))]]
MatNeg(A) == [i \in 1..Len(A) |-> [j \in 1..Len(A[i]) |-> 0 - A[i][j]]]
MatSub(A, B) ==
    [i \in 1..Len(A) |-> [j \in 1..Len(A[i]) |-> A[i][j] - B[i][j]]]

\* numpy.cross of two 3-vectors
Cross(a, b) ==
    << a[2] * b[3] - a[3] * b[2],
       a[3] * b[1] - a[1] * b[3],
       a[1] * b[2] - a[2] * b[1] >>

(***************************************************************************)
(* Lines 94-102 and 104-112: entry (i, j) of prox_K / dist_K for one       *)
(* sample (the code's columns 0, 1, 2 of w and wd are 1, 2, 3 here)        *)
(***************************************************************************)
KEntrySlip(i, j, w, wd) ==
    CASE <<i, j>> = <<1, 1>> -> 0 - w[2] * w[2] - w[3] * w[3]
      [] <<i, j>> = <<1, 2>> -> w[1] * w[2] + wd[3]
      [] <<i, j>> = <<1, 3>> -> wd[2] + w[1] * w[3]
      [] <<i, j>> = <<2, 1>> -> wd[3] + w[1] * w[2]
      [] <<i, j>> = <<2, 2>> -> 0 - w[1] * w[1] - w[3] * w[3]
      [] <<i, j>> = <<2, 3>> -> w[2] * w[3] - wd[1]
      [] <<i, j>> = <<3, 1>> -> w[1] * w[3] - wd[2]
      [] <<i, j>> = <<3, 2>> -> wd[1] + w[2] * w[3]
      [] <<i, j>> = <<3, 3>> -> 0 - w[1] * w[1] - w[2] * w[2]
KEntry(i, j, w, wd) ==
    CASE <<i, j>> = <<1, 1>> -> 0 - w[2] * w[2] - w[3] * w[3]
      [] <<i, j>> = <<1, 2>> -> w[1] * w[2] - wd[3]
      [] <<i, j>> = <<1, 3>> -> wd[2] + w[1] * w[3]
      [] <<i, j>> = <<2, 1>> -> wd[3] + w[1] * w[2]
      [] <<i, j>> = <<2, 2>> -> 0 - w[1] * w[1] - w[3] * w[3]
      [] <<i, j>> = <<2, 3>> -> w[2] * w[3] - wd[1]
      [] <<i, j>> = <<3, 1>> -> w[1] * w[3] - wd[2]
      [] <<i, j>> = <<3, 2>> -> wd[1] + w[2] * w[3]
      [] <<i, j>> = <<3, 3>> -> 0 - w[1] * w[1] - w[2] * w[2]

\* the 3x3 matrix of one sample
KMat(w, wd) == [i \in 1..3 |-> [j \in 1..3 |-> KEntry(i, j, w, wd)]]

\* array([[...], [...], [...]]) on the columns of w and wd: shape (3, 3, M)
KStack(w, wd) ==
    [i \in 1..3 |-> [j \in 1..3 |->
        [m \in 1..Len(w) |-> KEntry(i, j, w[m], wd[m])]]]

\* .transpose([2, 0, 1]) of a (3, 3, M) array: shape (M, 3, 3)
Transpose210(X) ==
    [m \in 1..Len(X[1][1]) |-> [i \in 1..3 |-> [j \in 1..3 |-> X[j][i][m]]]]
Transpose201(X) ==
    [m \in 1..Len(X[1][1]) |-> [i \in 1..3 |-> [j \in 1..3 |-> X[i][j][m]]]]

(***************************************************************************)
(* compute_distance_residuals, lines 184-185: the acceleration moved to    *)
(* the joint centre, at = a - cross(w, cross(w, r)) - cross(wd, r)         *)
(***************************************************************************)
AccAtCenter(a, w, wd, r) ==
    VSub(VSub(a, Cross(w, Cross(w, r))), Cross(wd, r))

(***************************************************************************)
(* SpecK: one sample of one sensor                                         *)
(***************************************************************************)
Vec3(n) == [1..3 -> (0 - n)..n]
AccVals == {<<0, 0, 0>>, <<1, 2, 3>>}

InitK ==
    /\ InitCompute({DefaultConfig})
    /\ kin \in [a : AccVals, w : Vec3(WMax), wd : Vec3(WMax), r : Vec3(RMax)]
    /\ kout = <<>>
    /\ ain = NoAin /\ aout = <<>>

ApplyK ==
    /\ kin # NoKin
    /\ kout = <<>>
    /\ kout' = [Kr |-> MatVec(KMat(kin.w, kin.wd), kin.r),
                at |-> AccAtCenter(kin.a, kin.w, kin.wd, kin.r)]
    /\ UNCHANGED <<computeVars, kin, ain, aout>>

NextK == ApplyK

SpecK == InitK /\ [][NextK]_vars

(***************************************************************************)
(* SpecA: lines 93-117, the stacked system of method SAC                   *)
(***************************************************************************)
\* x[mask]: the entries of x where mask is True, in their order
RECURSIVE Select(_, _)
Select(x, m) ==
    IF x = <<>> THEN <<>>
    ELSE (IF Head(m) THEN <<Head(x)>> ELSE <<>>) \o Select(Tail(x), Tail(m))

\* X @ Y on stacks of matrices
BatchMatMul(X, Y) == [m \in 1..Len(X) |-> MatMul(X[m], Y[m])]
BatchNeg(X) == [m \in 1..Len(X) |-> MatNeg(X[m])]
BatchSub(X, Y) == [m \in 1..Len(X) |-> MatSub(X[m], Y[m])]

\* concatenate((X, Y), axis=2) of two (M, 3, c) arrays
ConcatAxis2(X, Y) ==
    [m \in 1..Len(X) |-> [i \in 1..3 |-> X[m][i] \o Y[m][i]]]

\* the scalars of a (M, 3, c) array in C order
RECURSIVE FlatRows(_)
FlatRows(rows) ==
    IF rows = <<>> THEN <<>> ELSE Head(rows) \o FlatRows(Tail(rows))
RECURSIVE Flat3(_)
Flat3(X) == IF X = <<>> THEN <<>> ELSE FlatRows(Head(X)) \o Flat3(Tail(X))

\* .reshape((-1, c)) of an array given by its scalars in C order
Chunks(flat, c) ==
    [q \in 1..(Len(flat) \div c) |-> SubSeq(flat, (q - 1) * c + 1, q * c)]
Reshape2(X, c) == Chunks(Flat3(X), c)

\* a.reshape((-1, 3, 1)) of an (M, 3) array: every vector as a column
AsColumns(a) == [m \in 1..Len(a) |-> [i \in 1..3 |-> <<a[m][i]>>]]

AssembleA(in) ==
    LET proxK == Transpose201(KStack(Select(in.prox_w, in.mask),
                                     Select(in.prox_wd, in.mask)))
        distK == Transpose201(KStack(Select(in.dist_w, in.mask),
                                     Select(in.dist_wd, in.mask)))
    IN  Reshape2(ConcatAxis2(proxK,
                     BatchMatMul(BatchNeg(Select(in.R_dist_prox, in.mask)),
                                 distK)), 6)

AssembleB(in) ==
    Reshape2(BatchSub(AsColumns(Select(in.prox_a, in.mask)),
                      BatchMatMul(Select(in.R_dist_prox, in.mask),
                                  AsColumns(Select(in.dist_a, in.mask)))), 1)

\* the samples the trials of SpecA are made of
SampleKinds ==
    { [a1 |-> <<1, 2, 3>>, a2 |-> <<4, 5, 6>>, w1 |-> <<1, 0, 2>>,
       w2 |-> <<0, 1, 1>>, wd1 |-> <<1, 1, 0>>, wd2 |-> <<2, 0, 1>>,
       R |-> << <<0, -1, 0>>, <<1, 0, 0>>, <<0, 0, 1>> >>],
      [a1 |-> <<2, 0, 1>>, a2 |-> <<1, 3, 0>>, w1 |-> <<0, 2, 1>>,
       w2 |-> <<1, 1, 0>>, wd1 |-> <<0, 1, 2>>, wd2 |-> <<1, 0, 0>>,
       R |-> << <<0, 0, 1>>, <<1, 0, 0>>, <<0, 1, 0>> >>],
      [a1 |-> <<0, 1, 5>>, a2 |-> <<3, 0, 2>>, w1 |-> <<2, 1, 0>>,
       w2 |-> <<1, 2, 3>>, wd1 |-> <<3, 0, 1>>, wd2 |-> <<0, 2, 1>>,
       R |-> << <<1, 0, 0>>, <<0, 0, -1>>, <<0, 1, 0>> >>] }

InputsOf(ss, m) ==
    [prox_a |-> [i \in 1..Len(ss) |-> ss[i].a1],
     dist_a |-> [i \in 1..Len(ss) |-> ss[i].a2],
     prox_w |-> [i \in 1..Len(ss) |-> ss[i].w1],
     dist_w |-> [i \in 1..Len(ss) |-> ss[i].w2],
     prox_wd |-> [i \in 1..Len(ss) |-> ss[i].wd1],
     dist_wd |-> [i \in 1..Len(ss) |-> ss[i].wd2],
     R_dist_prox |-> [i \in 1..Len(ss) |-> ss[i].R],
     mask |-> m]

InitA ==
    /\ InitCompute({DefaultConfig})
    /\ kin = NoKin /\ kout = <<>>
    /\ \E n \in 1..MaxNA :
         \E ss \in [1..n -> SampleKinds], m \in [1..n -> BOOLEAN] :
            ain = InputsOf(ss, m)
    /\ aout = <<>>

Assemble ==
    /\ ain # NoAin
    /\ aout = <<>>
    /\ aout' = [A |-> AssembleA(ain), b |-> AssembleB(ain)]
    /\ UNCHANGED <<computeVars, kin, kout, ain>>

NextA == Assemble

SpecA == InitA /\ [][NextA]_vars

(***************************************************************************)
(* The properties.  Their side of each statement is written without the    *)
(* operators of the model above: the thresholds are the decimal ladder     *)
(* 0.80, 0.75, ..., 0.10 and the masks are sets of sample indices.         *)
(***************************************************************************)
LadderSteps == 15
Ladder == {Dec(80 - 5 * k) : k \in 0..(LadderSteps - 1)}

Mag(x) == IF x >= 0 THEN x ELSE 0 - x
SamplesAbove(t, th) ==
    {i \in 1..Len(t.pan) : Mag(t.pan[i]) > th /\ Mag(t.dan[i]) > th}
Enough(t, c, th) == Cardinality(SamplesAbove(t, th)) >= c.min_samples
SomeEnough(t, c) == \E th \in Ladder : Enough(t, c, th)
FirstEnough(t, c) ==
    CHOOSE th \in Ladder :
        /\ Enough(t, c, th)
        /\ \A th2 \in Ladder : th2 > th => ~Enough(t, c, th2)
Retained(m) == {i \in DOMAIN m : m[i]}
AfterMasking == pc \in {"solve", "return", "done"}

\* C1: with masking on and min_samples >= 1, if some threshold of the ladder
\* 0.80 ... 0.10 has at least min_samples samples above it on both sensors,
\* compute does not raise the masking error and fits on exactly the samples
\* above the first such threshold.
C1_FirstSufficientThreshold ==
    (/\ pc = "done"
     /\ cfg.mask_input
     /\ cfg.min_samples >= 1
     /\ SomeEnough(trial, cfg))
    => /\ result.kind # "ValueError"
       /\ Retained(mask) = SamplesAbove(trial, FirstEnough(trial, cfg))

\* C2: with masking on, if no threshold of the ladder has at least
\* min_samples samples above it on both sensors, compute ends with the
\* ValueError before any solver call; and no result is returned from a mask
\* of fewer than min_samples samples.
C2_InsufficientMotionRaises ==
    /\ (pc = "done" /\ cfg.mask_input /\ ~SomeEnough(trial, cfg))
       => (result.kind = "ValueError" /\ solver = "none" /\ fitM = 0)
    /\ (cfg.mask_input /\ result.kind = "returned")
       => Cardinality(Retained(mask)) >= cfg.min_samples

C2_Witness ==
    /\ pc = "done"
    /\ cfg.mask_input
    /\ ~SomeEnough(trial, cfg)
    /\ Len(trial.pan) >= cfg.min_samples
    /\ result.kind = "ValueError"

\* C3: every call that returns a result, masking on or off, retained at
\* least min_samples samples.
C3_ReturnedMaskHasMinSamples ==
    (pc = "done" /\ result.kind = "returned")
    => Cardinality(Retained(mask)) >= cfg.min_samples

\* C4: with masking off the mask selects all N samples, no threshold is
\* evaluated and the masking error is never raised.
C4_NoMaskingKeepsAll ==
    (~cfg.mask_input /\ AfterMasking)
    => /\ Retained(mask) = 1..Len(trial.pan)
       /\ evals = 0
       /\ result.kind # "ValueError"
       /\ (pc # "solve" => fitM = Len(trial.pan))

C4_Witness ==
    /\ ~cfg.mask_input
    /\ pc = "done"
    /\ result.kind = "returned"
    /\ Len(trial.pan) < cfg.min_samples

\* C5: the residual returned is the solver's error value divided by M, the
\* number of samples of the mask the fit used, not by the trial length N.
C5_ResidualPerRetainedSample ==
    (pc = "done" /\ result.kind = "returned")
    => /\ result.num = trial.err
       /\ result.den = fitM
       /\ fitM = Cardinality(Retained(mask))

C5_Witness ==
    /\ pc = "done"
    /\ result.kind = "returned"
    /\ fitM < Len(trial.pan)
    /\ result.den = fitM

\* C7: whenever the solver fails (lstsq without residual, least_squares not
\* converged), compute ends with an error and returns no result.
C7_SolverFailureRaises ==
    (pc = "done" /\ solver = "fail") => result.kind # "returned"

\* C8: the masking loop evaluates the mask at no more than 15 thresholds and
\* then has either left the loop with at least min_samples samples or raised
\* the masking error.
C8_MaskingLoopBounded ==
    /\ evals <= LadderSteps
    /\ pc = "loop" => evals < LadderSteps
    /\ (cfg.mask_input /\ AfterMasking)
       => \/ result.kind = "ValueError"
          \/ Cardinality(Retained(mask)) >= cfg.min_samples

C8_Witness ==
    /\ pc = "done"
    /\ evals = LadderSteps
    /\ result.kind = "ValueError"
    /\ Len(trial.pan) >= cfg.min_samples

\* C9: compute leaves the configuration as constructed, and a call on a
\* Center that has computed before selects the same mask and ends the same
\* way as that call did on the fresh Center.
C9_CallsAreIndependent ==
    /\ cfg = cfg0
    /\ (pc = "done" /\ ncalls >= 2 /\ trial = first.trial)
       => (mask = first.mask /\ result = first.result)

C9_Witness ==
    /\ pc = "done"
    /\ ncalls = MaxCalls
    /\ trial = first.trial
    /\ result.kind = "returned"
    /\ cfg = cfg0

\* C6: for every w, wd and r the matrix K of a sensor satisfies
\* K r = w x (w x r) + wd x r, the term compute_distance_residuals takes off
\* the acceleration; w = (0,0,1), wd = 0, r = (0.1,0,0) gives (-0.1,0,0)
\* (r and K r in tenths).
C6_KIsTheCrossProductTerm ==
    kout # <<>>
    => /\ \A i \in 1..3 : kin.a[i] - kout.Kr[i] = kout.at[i]
       /\ (kin.w = <<0, 0, 1>> /\ kin.wd = <<0, 0, 0>> /\ kin.r = <<1, 0, 0>>)
          => kout.Kr = <<-1, 0, 0>>

C6_Witness ==
    /\ kout # <<>>
    /\ kin.w = <<0, 0, 1>> /\ kin.wd = <<0, 0, 0>> /\ kin.r = <<1, 0, 0>>
    /\ kout.Kr = <<-1, 0, 0>>

\* C10: in SAC, rows 3k..3k+2 of A are [K_prox | -R K_dist] of the k-th
\* retained sample and the same rows of b are a_prox - R a_dist of that
\* sample; A is 3M x 6 and b has 3M rows.
KthRetained(m, k) ==
    CHOOSE j \in DOMAIN m :
        m[j] /\ Cardinality({l \in 1..j : m[l]}) = k

BlockRowA(in, j, i) ==
    LET Kp == KMat(in.prox_w[j], in.prox_wd[j])
        Kd == KMat(in.dist_w[j], in.dist_wd[j])
        R == in.R_dist_prox[j]
    IN  [c \in 1..6 |->
            IF c <= 3 THEN Kp[i][c]
            ELSE 0 - (R[i][1] * Kd[1][c - 3] + R[i][2] * Kd[2][c - 3]
                      + R[i][3] * Kd[3][c - 3])]

BlockRowB(in, j, i) ==
    LET R == in.R_dist_prox[j]
    IN  in.prox_a[j][i] - (R[i][1] * in.dist_a[j][1] + R[i][2] * in.dist_a[j][2]
                           + R[i][3] * in.dist_a[j][3])

C10_StackedSystem ==
    aout # <<>>
    => LET M == Cardinality(Retained(ain.mask))
       IN  /\ Len(aout.A) = 3 * M
           /\ Len(aout.b) = 3 * M
           /\ \A k \in 1..M : \A i \in 1..3 :
                LET j == KthRetained(ain.mask, k)
                    q == 3 * (k - 1) + i
                IN  /\ aout.A[q] = BlockRowA(ain, j, i)
                    /\ aout.b[q] = <<BlockRowB(ain, j, i)>>

C10_Witness ==
    /\ aout # <<>>
    /\ Cardinality(Retained(ain.mask)) = 2
    /\ Len(ain.mask) = 3
    /\ Len(aout.A) = 6

====
